---- MODULE Spec2Model ----
(***************************************************************************)
(* A model of packages/tailwindcss/src/ast.ts: the AST node constructors,  *)
(* the tree walker `walk` and the printer `toCss`.                         *)
(*                                                                         *)
(* Objects live in a heap: heap[n] is the node with identity n, and a      *)
(* Rule's `nodes` array holds the identities of its children.  `ast` is    *)
(* the top-level array handed to walk / toCss.  An array is named by its   *)
(* owner: ROOT for `ast`, n for heap[n].nodes.                             *)
(*                                                                         *)
(* Strings are sequences of one-character strings, so that the code's      *)
(* tests on characters and prefixes are computed and not looked up.        *)
(***************************************************************************)
EXTENDS Integers, Sequences, FiniteSets, TLC

VARIABLES
  heap,     \* heap[n]: the node object with identity n
  ast,      \* the array passed as `ast` to walk, or to toCss
  stack,    \* walk: the active calls of walk, innermost last
  pc,       \* walk: "walking", "done" (returned) or "threw" (TypeError)
  visits,   \* walk: one record per call of the visitor, in call order
  visitor,  \* walk: what the visitor may do: [maxReplace, maxCalls, kinds]
  outs,     \* toCss: one record per call of toCss, in call order
  locals    \* toCss: `atRoots` and `seenAtProperties` as the latest call left them

vars == <<heap, ast, stack, pc, visits, visitor, outs, locals>>

----------------------------------------------------------------------------
(* Bounds of the model *)

\* nodes of the forest walk is started on
MaxInitNodes == 3
\* calls of replaceWith during one walk
MaxReplace == 2
\* calls of replaceWith within one call of the visitor
MaxCalls == 2
\* calls of replaceWith during one walk, of a visitor that calls it at most
\* once in a visit
MaxOnce == 1
MaxTermNodes == 2
\* nodes of the forest toCss is called on
MaxCssNodes == 4
MaxTrackNodes == 3
MaxCssCalls == 2
MaxFreshNodes == 5

----------------------------------------------------------------------------
(* Values *)

Max(a, b) == IF a >= b THEN a ELSE b
Min(a, b) == IF a <= b THEN a ELSE b

\* the owner naming the top-level array `ast`
ROOT == 0
\* what ast[i] yields outside the array: JavaScript's undefined
NoNode == 0

Str_a == <<".", "a">>
Str_c == <<"c">>
Str_r == <<"r">>
Str_w == <<".", "w">>

\* the selectors toCss knows
S_atRoot == <<"@", "a", "t", "-", "r", "o", "o", "t">>
S_utilities ==
  <<"@", "t", "a", "i", "l", "w", "i", "n", "d", " ",
    "u", "t", "i", "l", "i", "t", "i", "e", "s">>
S_property == <<"@", "p", "r", "o", "p", "e", "r", "t", "y", " ">>
S_twSort == <<"-", "-", "t", "w", "-", "s", "o", "r", "t">>
S_important == <<"!", "i", "m", "p", "o", "r", "t", "a", "n", "t">>

\* selectors of the forests toCss is called on
Sel_x == S_property \o <<"-", "-", "x">>
Sel_y == S_property \o <<"-", "-", "y">>
\* a selector list and a value written on two lines
Sel_ab == <<".", "a", ",", "\n", ".", "b">>
Val_rc == <<"r", "\n", "c">>

\* undefined and null: no string, a string being a sequence of characters
Undefined == <<"undefined">>
Null == <<"null">>
\* `location` when the destination is not tracked
NoLocation == [undefined |-> TRUE]

\* `atRoots` and `seenAtProperties` before the first call of toCss
NoLocals == [atRoots |-> <<>>, seenAtProperties |-> {}]

rule(selector, nodes, mappings) ==
  [kind |-> "rule", selector |-> selector, nodes |-> nodes, mappings |-> mappings]

decl(property, value, mappings) ==
  [kind |-> "declaration", property |-> property, value |-> value,
   important |-> FALSE, mappings |-> mappings]

comment(value, mappings) ==
  [kind |-> "comment", value |-> value, mappings |-> mappings]

\* WalkAction
Continue == "Continue"
Skip == "Skip"
Stop == "Stop"
WalkAction == {Continue, Skip, Stop}

----------------------------------------------------------------------------
(* The heap *)

\* the array named by owner, in memory m = [heap, ast]
Arr(m, owner) == IF owner = ROOT THEN m.ast ELSE m.heap[owner].nodes

\* memory m with the array named by owner holding arr
SetArr(m, owner, arr) ==
  IF owner = ROOT
    THEN [m EXCEPT !.ast = arr]
    ELSE [m EXCEPT !.heap[owner].nodes = arr]

\* ast[i] of JavaScript, i counted from 0
At(arr, i) == IF i >= 0 /\ i < Len(arr) THEN arr[i + 1] ELSE NoNode

\* a new object on the heap; its identity is Len(heap) afterwards
New(m, obj) == [m EXCEPT !.heap = Append(m.heap, obj)]

\* A forest given as nested values (a Rule's nodes holding the child
\* values) is placed on heap h, identities in pre-order.
RECURSIVE LoadAll(_, _)
LoadAll(trees, h) ==
  IF trees = <<>> THEN [heap |-> h, ids |-> <<>>]
  ELSE LET t  == Head(trees)
           id == Len(h) + 1
           h1 == Append(h, t)
           c  == IF t.kind = "rule" THEN LoadAll(t.nodes, h1)
                                    ELSE [heap |-> h1, ids |-> <<>>]
           h2 == IF t.kind = "rule" THEN [c.heap EXCEPT ![id].nodes = c.ids]
                                    ELSE c.heap
           r  == LoadAll(Tail(trees), h2)
       IN [heap |-> r.heap, ids |-> <<id>> \o r.ids]

\* the forests of exactly n nodes, each node one of leaves or a Rule with a
\* selector of selectors
RECURSIVE ForestsOfSize(_, _, _)
TreesOfSize(k, leaves, selectors) ==
  (IF k = 1 THEN leaves ELSE {})
    \cup {rule(sel, f, <<>>) : sel \in selectors, f \in ForestsOfSize(k - 1, leaves, selectors)}
ForestsOfSize(n, leaves, selectors) ==
  IF n = 0 THEN {<<>>}
  ELSE UNION {{<<t>> \o f : t \in TreesOfSize(k, leaves, selectors),
                            f \in ForestsOfSize(n - k, leaves, selectors)}
                : k \in 1..n}

\* walk looks at nothing but a node's kind and nodes
WalkForests ==
  UNION {ForestsOfSize(n, {decl(Str_c, Str_r, <<>>)}, {Str_a}) : n \in 0..MaxInitNodes}

----------------------------------------------------------------------------
(* walk *)

\* a splice that inserts and removes nothing
SpliceKeeping(arr, start, deleteCount, items) ==
  LET s == IF start < 0 THEN Max(Len(arr) + start, 0) ELSE Min(start, Len(arr))
  IN SubSeq(arr, 1, s) \o items \o SubSeq(arr, s + 1, Len(arr))

\* Array.prototype.splice(start, deleteCount, ...items), start counted from 0:
\* a negative start counts from the end, both arguments are clamped
Splice(arr, start, deleteCount, items) ==
  LET len == Len(arr)
      s   == IF start < 0 THEN Max(len + start, 0) ELSE Min(start, len)
      d   == Min(Max(deleteCount, 0), len - s)
  IN SubSeq(arr, 1, s) \o items \o SubSeq(arr, s + d + 1, len)

\* an `i--` that goes back two places
RewindTwice(i) == i - 2

\* replaceWith without its `i--`
RewindForgotten(i) == i

\* the `i--` of replaceWith
Rewind(i) == i - 1

\* replaceWith(newNode) inside the loop of walk: st = [arr, i] are the
\* array `ast` and the loop variable `i` the closure captured
replaceWith(st, newNode) ==
  [arr |-> Splice(st.arr, st.i, 1, newNode), i |-> Rewind(st.i)]

\* the calls of replaceWith one call of the visitor makes, in order
RECURSIVE ApplyCalls(_, _)
ApplyCalls(st, calls) ==
  IF calls = <<>> THEN st
  ELSE ApplyCalls(replaceWith(st, Head(calls)), Tail(calls))

\* a loop stepping over every other element
AdvanceTwice(i) == i + 2

\* the `i++` of the loop
Advance(i) == i + 1

\* the test before `walk(node.nodes, visit)`
Descends(m, node) == m.heap[node].kind = "rule"

\* What a visitor may pass to replaceWith, by name
FreshKinds == {"delete", "decl", "decl2", "rule"}
ReplaceKinds == FreshKinds \cup {"self", "wrap"}

\* The visitor builds the argument of one call: m is the memory, node the
\* node it was called on; gives the memory with the new objects and the
\* sequence passed to replaceWith.
Build(m, node, k) ==
  LET n == Len(m.heap)
  IN CASE k = "delete" -> [m |-> m, items |-> <<>>]
       [] k = "decl"   -> [m |-> New(m, decl(Str_c, Str_r, <<>>)), items |-> <<n + 1>>]
       [] k = "decl2"  -> [m |-> New(New(m, decl(Str_c, Str_r, <<>>)),
                                       decl(Str_r, Str_c, <<>>)),
                           items |-> <<n + 1, n + 2>>]
       [] k = "self"   -> [m |-> m, items |-> <<node>>]
       [] k = "wrap"   -> [m |-> New(m, rule(Str_w, <<node>>, <<>>)), items |-> <<n + 1>>]
       [] k = "rule"   -> [m |-> New(New(m, decl(Str_c, Str_r, <<>>)),
                                       rule(Str_w, <<n + 1>>, <<>>)),
                           items |-> <<n + 2>>]

RECURSIVE BuildAll(_, _, _)
BuildAll(m, node, kinds) ==
  IF kinds = <<>> THEN [m |-> m, calls |-> <<>>]
  ELSE LET b == Build(m, node, Head(kinds))
           r == BuildAll(b.m, node, Tail(kinds))
       IN [m |-> r.m, calls |-> <<b.items>> \o r.calls]

\* the sequences of calls the visitor may make in one visit to node
CallKinds(node) ==
  LET K == IF node = NoNode THEN visitor.kinds \cap {"delete", "decl"}
                            ELSE visitor.kinds
  IN UNION {[1..n -> K] : n \in 0..visitor.maxCalls}

RECURSIVE SumCalls(_)
SumCalls(vs) == IF vs = <<>> THEN 0 ELSE Len(Head(vs).calls) + SumCalls(Tail(vs))

Mem == [heap |-> heap, ast |-> ast]

\* Calls of walk return while the loop test `i < ast.length` of the
\* innermost one fails; each caller's loop goes on with its `i++`.
RECURSIVE Unwind(_, _)
Unwind(stk, m) ==
  IF stk = <<>> THEN stk
  ELSE LET f == stk[Len(stk)]
       IN IF f.i < Len(Arr(m, f.ast)) THEN stk
          ELSE LET rest == SubSeq(stk, 1, Len(stk) - 1)
               IN IF rest = <<>> THEN rest
                  ELSE Unwind([rest EXCEPT ![Len(rest)].i = Advance(rest[Len(rest)].i)], m)

\* `return` on Stop: the innermost call of walk returns to its caller
Return(stk, m) ==
  LET rest == SubSeq(stk, 1, Len(stk) - 1)
  IN IF rest = <<>> THEN rest
     ELSE Unwind([rest EXCEPT ![Len(rest)].i = Advance(rest[Len(rest)].i)], m)

\* One iteration of the loop of walk up to the visitor's return: the
\* visitor is called on ast[i], makes the calls of replaceWith named by
\* kinds, and returns status.  Gives the memory, the loop variable and the
\* record of the visit.
Iteration(kinds, status) ==
  LET f    == stack[Len(stack)]
      arr  == Arr(Mem, f.ast)
      node == At(arr, f.i)
      b    == BuildAll(Mem, node, kinds)
      st   == ApplyCalls([arr |-> arr, i |-> f.i], b.calls)
  IN [m     |-> SetArr(b.m, f.ast, st.arr),
      i     |-> st.i,
      node  |-> node,
      visit |-> [node |-> node, ast |-> f.ast, i |-> f.i, calls |-> b.calls,
                 status |-> status, before |-> arr, after |-> st.arr]]

\* the node the next call of the visitor is made on
Current == At(Arr(Mem, stack[Len(stack)].ast), stack[Len(stack)].i)

CanVisit(kinds) ==
  /\ pc = "walking"
  /\ Len(kinds) <= visitor.maxCalls
  /\ SumCalls(visits) + Len(kinds) <= visitor.maxReplace
  /\ kinds \in CallKinds(Current)

\* the state after the visitor's return
Resume(it, stk, state) ==
  /\ heap' = it.m.heap
  /\ ast' = it.m.ast
  /\ visits' = Append(visits, it.visit)
  /\ stack' = stk
  /\ pc' = IF state = "threw" THEN "threw" ELSE IF stk = <<>> THEN "done" ELSE "walking"
  /\ UNCHANGED <<visitor, outs, locals>>

\* the visitor returns Stop: `return`
VisitStop(kinds) ==
  /\ CanVisit(kinds)
  /\ \E it \in {Iteration(kinds, Stop)} :
        Resume(it, Return(stack, it.m), "ok")

\* a Skip that is noted but takes the path of Continue
VisitSkipAsContinue(kinds) ==
  /\ CanVisit(kinds)
  /\ IF Current = NoNode THEN TRUE ELSE Descends(Mem, Current)
  /\ \E it \in {Iteration(kinds, Skip)} :
        IF it.node = NoNode
          THEN Resume(it, <<>>, "threw")
          ELSE IF Descends(it.m, it.node)
            THEN Resume(it, Unwind(Append([stack EXCEPT ![Len(stack)].i = it.i],
                                          [ast |-> it.node, i |-> 0]), it.m), "ok")
            ELSE Resume(it, Unwind([stack EXCEPT ![Len(stack)].i = Advance(it.i)], it.m), "ok")

\* the visitor returns Skip: `continue`.  On a Declaration or a Comment
\* Skip and Continue take the same path, so Skip is drawn on the other
\* nodes only.
VisitSkip(kinds) ==
  /\ CanVisit(kinds)
  /\ IF Current = NoNode THEN TRUE ELSE Descends(Mem, Current)
  /\ \E it \in {Iteration(kinds, Skip)} :
        Resume(it, Unwind([stack EXCEPT ![Len(stack)].i = Advance(it.i)], it.m), "ok")

\* the visitor returns Continue, or nothing: walk descends into the nodes
\* of `node`, the node the visitor was called on, when it is a Rule
VisitContinue(kinds) ==
  /\ CanVisit(kinds)
  /\ \E it \in {Iteration(kinds, Continue)} :
        IF it.node = NoNode
          THEN \* `node.kind` of undefined: TypeError, every call unwinds
               Resume(it, <<>>, "threw")
          ELSE IF Descends(it.m, it.node)
            THEN Resume(it, Unwind(Append([stack EXCEPT ![Len(stack)].i = it.i],
                                          [ast |-> it.node, i |-> 0]), it.m), "ok")
            ELSE Resume(it, Unwind([stack EXCEPT ![Len(stack)].i = Advance(it.i)], it.m), "ok")

\* walk(ast, visit) has been called on forest f with a visitor v
Start(f, v) ==
  LET l == LoadAll(f, <<>>)
  IN /\ heap = l.heap
     /\ ast = l.ids
     /\ stack = IF l.ids = <<>> THEN <<>> ELSE <<[ast |-> ROOT, i |-> 0]>>
     /\ pc = IF l.ids = <<>> THEN "done" ELSE "walking"
     /\ visits = <<>>
     /\ visitor = v
     /\ outs = <<>>
     /\ locals = NoLocals

Init ==
  \E f \in WalkForests :
    Start(f, [maxReplace |-> MaxReplace, maxCalls |-> MaxCalls, kinds |-> ReplaceKinds])

AllCalls == UNION {[1..n -> ReplaceKinds] : n \in 0..MaxCalls}

Next ==
  \/ \E kinds \in AllCalls : VisitContinue(kinds)
  \/ \E kinds \in AllCalls : VisitSkip(kinds)
  \/ \E kinds \in AllCalls : VisitStop(kinds)

Spec == Init /\ [][Next]_vars

\* A visitor that calls replaceWith at most once in a visit, with new nodes
InitOnce ==
  \E f \in WalkForests :
    Start(f, [maxReplace |-> MaxOnce, maxCalls |-> 1, kinds |-> FreshKinds])

SpecOnce == InitOnce /\ [][Next]_vars

\* A visitor that only deletes: replaceWith([]), at most once in a visit
InitDelete ==
  \E f \in WalkForests :
    Start(f, [maxReplace |-> MaxReplace, maxCalls |-> 1, kinds |-> {"delete"}])

SpecDelete == InitDelete /\ [][Next]_vars

\* A visitor that calls replaceWith at most once in a visit, with the node
\* it was called on or a new Rule holding it
InitWrap ==
  \E f \in WalkForests :
    Start(f, [maxReplace |-> MaxOnce, maxCalls |-> 1, kinds |-> {"self", "wrap"}])

SpecWrap == InitWrap /\ [][Next]_vars


----------------------------------------------------------------------------
(* toCss *)

\* '  '.repeat(depth)
RECURSIVE Repeat(_, _)
Repeat(str, n) == IF n <= 0 THEN <<>> ELSE str \o Repeat(str, n - 1)

\* str.startsWith(prefix)
StartsWith(str, prefix) ==
  Len(str) >= Len(prefix) /\ SubSeq(str, 1, Len(prefix)) = prefix

\* str[0] === ch
FirstIs(str, ch) == Len(str) > 0 /\ str[1] = ch

\* str.split(sep) for a separator of one character: the pieces between the
\* separators, one more than there are separators
RECURSIVE Split(_, _)
Split(str, sep) ==
  IF \A k \in 1..Len(str) : str[k] # sep THEN <<str>>
  ELSE LET k == CHOOSE j \in 1..Len(str) :
                  str[j] = sep /\ \A h \in 1..(j - 1) : str[h] # sep
       IN <<SubSeq(str, 1, k - 1)>> \o Split(SubSeq(str, k + 1, Len(str)), sep)

\* hoisted content put before what was hoisted earlier
HoistFirst(atRoots, nodes) == nodes \o atRoots

\* atRoots.concat(node.nodes)
Hoist(atRoots, nodes) == atRoots \o nodes

\* a test for duplicates that forgets the depth
DedupAnyDepth(selector, depth) ==
  FirstIs(selector, "@") /\ StartsWith(selector, S_property)

\* the test guarding the suppression of duplicate `@property` rules
DedupApplies(selector, depth) ==
  FirstIs(selector, "@") /\ StartsWith(selector, S_property) /\ depth = 0

\* a mapping pushed whether or not the call tracks destinations
TrackUnasked(c, n, indent, lines) ==
  LET at == [line |-> 0, column |-> Len(indent)]
      mapping == [source |-> Null, destination |-> [start |-> at, end |-> at]]
  IN IF c.location = NoLocation
       THEN [c EXCEPT !.heap[n].mappings = Append(@, mapping)]
       ELSE [c EXCEPT !.location.line = @ + lines]

\* a mapping that always points at column 0
TrackColumnZero(c, n, indent, lines) ==
  IF c.location = NoLocation THEN c
  ELSE LET at == [line |-> c.location.line, column |-> 0]
           mapping == [source |-> Null, destination |-> [start |-> at, end |-> at]]
       IN [c EXCEPT !.heap[n].mappings = Append(@, mapping),
                    !.location.line = @ + lines]

\* `if (location) { node.mappings.push(...); location.line += lines }`:
\* c is the state of one call of toCss, n the node, lines the advance
Track(c, n, indent, lines) ==
  IF c.location = NoLocation THEN c
  ELSE LET at == [line |-> c.location.line, column |-> Len(indent)]
           mapping == [source |-> Null, destination |-> [start |-> at, end |-> at]]
       IN [c EXCEPT !.heap[n].mappings = Append(@, mapping),
                    !.location.line = @ + lines]

\* a test that lets every property through
IsPrintedAnyProperty(node) == node.value # Undefined /\ node.value # Null

\* the test that guards the printing of a Declaration
IsPrinted(node) ==
  node.property # S_twSort /\ node.value # Undefined /\ node.value # Null

\* the branch of stringify taken by a call is noted in c.log, with the
\* length of the text the call of toCss has produced before it and the
\* line of the cursor (0 without tracking)
Note(c, n, depth, form) ==
  [c EXCEPT !.log = Append(@, [node |-> n, depth |-> depth, form |-> form,
                                at |-> c.pos,
                                line |-> IF c.location = NoLocation THEN 0
                                         ELSE c.location.line])]

\* text is put at the end of what the call of toCss has produced
Emit(c, text) == [c EXCEPT !.pos = @ + Len(text)]

\* stringify(node, {depth, location}) and stringifyAll(nodes, {depth,
\* location}).  c = [heap, atRoots, seenAtProperties, location, log, pos] is
\* what the closures share and change; the result is [css, c].
RECURSIVE stringify(_, _, _)
RECURSIVE stringifyAll(_, _, _)

stringifyAll(nodes, depth, c) ==
  IF nodes = <<>> THEN [css |-> <<>>, c |-> c]
  ELSE LET first == stringify(Head(nodes), depth, c)
           rest  == stringifyAll(Tail(nodes), depth, first.c)
       IN [css |-> first.css \o rest.css, c |-> rest.c]

stringify(n, depth, c) ==
  LET node   == c.heap[n]
      indent == Repeat(<<" ", " ">>, depth)
  IN IF node.kind = "rule" THEN
       IF node.selector = S_atRoot THEN
         [css |-> <<>>,
          c |-> [Note(c, n, depth, "hoisted") EXCEPT !.atRoots = Hoist(@, node.nodes)]]
       ELSE IF node.selector = S_utilities THEN
         stringifyAll(node.nodes, depth, Note(c, n, depth, "inline"))
       ELSE IF FirstIs(node.selector, "@") /\ Len(node.nodes) = 0 THEN
         LET text == indent \o node.selector \o <<";", "\n">>
         IN [css |-> text,
             c |-> Emit(Track(Note(c, n, depth, "statement"), n, indent, 1), text)]
       ELSE IF DedupApplies(node.selector, depth)
                 /\ node.selector \in c.seenAtProperties THEN
         [css |-> <<>>, c |-> Note(c, n, depth, "suppressed")]
       ELSE
         LET c1 == IF DedupApplies(node.selector, depth)
                     THEN [c EXCEPT !.seenAtProperties = @ \cup {node.selector}]
                     ELSE c
             open == indent \o node.selector \o <<" ", "{", "\n">>
             close == indent \o <<"}", "\n">>
             c2 == Emit(Track(Note(c1, n, depth, "block"), n, indent, 1), open)
             body == stringifyAll(node.nodes, depth + 1, c2)
             c3 == IF body.c.location = NoLocation THEN body.c
                   ELSE [body.c EXCEPT !.location.line = @ + 1]
         IN [css |-> open \o body.css \o close,
             c |-> Emit(c3, close)]
     ELSE IF node.kind = "comment" THEN
       LET text == indent \o <<"/", "*">> \o node.value \o <<"*", "/", "\n">>
       IN [css |-> text,
           c |-> Emit(Track(Note(c, n, depth, "comment"), n, indent,
                            1 + Len(Split(node.value, "\n")) - 1), text)]
     ELSE IF IsPrinted(node) THEN
       LET text == indent \o node.property \o <<":", " ">> \o node.value
                     \o (IF node.important THEN S_important ELSE <<>>) \o <<";", "\n">>
       IN [css |-> text,
           c |-> Emit(Track(Note(c, n, depth, "declaration"), n, indent,
                            1 + Len(Split(node.value, "\n")) - 1), text)]
     ELSE [css |-> <<>>, c |-> Note(c, n, depth, "nothing")]

\* a set of seen selectors declared outside toCss: a call finds it as the
\* call before left it
SeenKept == locals.seenAtProperties

\* `let seenAtProperties = new Set<string>()`: each call starts with a set
\* of its own, whatever the call before left
NewSeenAtProperties == {}

\* `let atRoots: AstNode[] = []`: each call starts with a buffer of its own
NewAtRoots == <<>>

\* toCss(ast, {trackDestination}) on memory m: the text returned, the heap
\* with the mappings pushed, and what the call went through
toCss(m, trackDestination) ==
  LET c0 == [heap |-> m.heap, atRoots |-> NewAtRoots,
             seenAtProperties |-> NewSeenAtProperties,
             location |-> IF trackDestination THEN [line |-> 1, column |-> 0]
                                              ELSE NoLocation,
             log |-> <<>>, pos |-> 0]
      main    == stringifyAll(m.ast, 0, c0)
      hoisted == stringifyAll(main.c.atRoots, 0, main.c)
  IN [css |-> main.css \o hoisted.css,
      heap |-> hoisted.c.heap,
      trackDestination |-> trackDestination,
      main |-> main.css,
      hoisted |-> main.c.atRoots,
      mainCalls |-> Len(main.c.log),
      log |-> hoisted.c.log,
      seen |-> hoisted.c.seenAtProperties,
      atRoots |-> hoisted.c.atRoots,
      location |-> hoisted.c.location]

\* the call of toCss on the forest
ToCss(trackDestination) ==
  /\ pc = "css"
  /\ outs = <<>>
  /\ LET r == toCss(Mem, trackDestination)
     IN /\ heap' = r.heap
        /\ outs' = Append(outs, [k \in DOMAIN r \ {"heap"} |-> r[k]])
        /\ locals' = [atRoots |-> r.atRoots, seenAtProperties |-> r.seen]
  /\ UNCHANGED <<ast, stack, pc, visits, visitor>>

\* the nodes the producer of the forest makes: a Declaration, or a Rule
\* still without children
CssNodes ==
  {decl(Str_c, Str_r, <<>>)}
    \cup {rule(sel, <<>>, <<>>) : sel \in {S_atRoot, S_utilities, Sel_x, Sel_y, Str_a}}

\* the owners of the arrays on the right edge of the forest: `ast`, its last
\* node when that is a Rule, the last node of that one, ...
RECURSIVE RightEdge(_, _)
RightEdge(m, owner) ==
  LET arr == Arr(m, owner)
  IN {owner} \cup (IF arr # <<>> /\ m.heap[arr[Len(arr)]].kind = "rule"
                     THEN RightEdge(m, arr[Len(arr)])
                     ELSE {})

\* The producer appends a new node to the forest.  Appending on the right
\* edge only builds every forest once, identities in pre-order.
AddNode(obj, owner) ==
  /\ pc = "css"
  /\ outs = <<>>
  /\ Len(heap) < MaxCssNodes
  /\ owner \in RightEdge(Mem, ROOT)
  /\ LET m == SetArr(New(Mem, obj), owner, Append(Arr(Mem, owner), Len(heap) + 1))
     IN /\ heap' = m.heap
        /\ ast' = m.ast
  /\ UNCHANGED <<stack, pc, visits, visitor, outs, locals>>

\* an empty forest, about to be built and then printed
InitCss ==
  /\ heap = <<>>
  /\ ast = <<>>
  /\ stack = <<>>
  /\ pc = "css"
  /\ visits = <<>>
  /\ visitor = [maxReplace |-> 0, maxCalls |-> 0, kinds |-> {}]
  /\ outs = <<>>
  /\ locals = NoLocals

NextCss ==
  \/ \E obj \in CssNodes : \E owner \in 0..MaxCssNodes : AddNode(obj, owner)
  \/ \E trackDestination \in BOOLEAN : ToCss(trackDestination)

SpecCss == InitCss /\ [][NextCss]_vars

\* Calls of toCss one after the other on one forest: each starts from the heap the one before it left, and what it
\* returned is kept with the heap before and after it.
ToCssAgain(trackDestination) ==
  /\ pc \in {"css", "track"}
  /\ Len(outs) < MaxCssCalls
  /\ LET r == toCss(Mem, trackDestination)
     IN /\ heap' = r.heap
        /\ outs' = Append(outs, [k \in (DOMAIN r \ {"heap"}) \cup {"before", "after"} |->
                                   IF k = "before" THEN heap
                                   ELSE IF k = "after" THEN r.heap ELSE r[k]])
        /\ locals' = [atRoots |-> r.atRoots, seenAtProperties |-> r.seen]
  /\ UNCHANGED <<ast, stack, pc, visits, visitor>>

\* the nodes of these forests: Declarations that are printed, on one line
\* or two, and that are not (`--tw-sort`, no value), a Comment on two lines,
\* and Rules still without children
TrackNodes ==
  {decl(Str_c, Str_r, <<>>), decl(Str_c, Val_rc, <<>>), decl(S_twSort, Str_r, <<>>),
   decl(Str_c, Undefined, <<>>), comment(Val_rc, <<>>)}
    \cup {rule(sel, <<>>, <<>>) : sel \in {S_atRoot, S_utilities, Sel_x, Str_a, Sel_ab}}

\* the producer appends a new node on the right edge of the forest
AddTrackNode(obj, owner) ==
  /\ pc = "track"
  /\ outs = <<>>
  /\ Len(heap) < MaxTrackNodes
  /\ owner \in RightEdge(Mem, ROOT)
  /\ LET m == SetArr(New(Mem, obj), owner, Append(Arr(Mem, owner), Len(heap) + 1))
     IN /\ heap' = m.heap
        /\ ast' = m.ast
  /\ UNCHANGED <<stack, pc, visits, visitor, outs, locals>>

InitTrack ==
  /\ heap = <<>>
  /\ ast = <<>>
  /\ stack = <<>>
  /\ pc = "track"
  /\ visits = <<>>
  /\ visitor = [maxReplace |-> 0, maxCalls |-> 0, kinds |-> {}]
  /\ outs = <<>>
  /\ locals = NoLocals

NextTrack ==
  \/ \E obj \in TrackNodes : \E owner \in 0..MaxTrackNodes : AddTrackNode(obj, owner)
  \/ ToCssAgain(TRUE)

SpecTrack == InitTrack /\ [][NextTrack]_vars

\* Calls of toCss, with and without tracking, one after the other on a
\* forest of Declarations, @at-root Rules, `@property` Rules and plain Rules
TwiceNodes ==
  {decl(Str_c, Str_r, <<>>)}
    \cup {rule(sel, <<>>, <<>>) : sel \in {S_atRoot, Sel_x, Str_a}}

NextTwice ==
  \/ \E obj \in TwiceNodes : \E owner \in 0..MaxCssNodes : AddNode(obj, owner)
  \/ \E trackDestination \in BOOLEAN : ToCssAgain(trackDestination)

SpecTwice == InitCss /\ [][NextTwice]_vars

\* Calls of toCss without tracking, one after the other, on a forest large
\* enough to hold both an @at-root Rule with content and two `@property`
\* Rules with the same selector and a child each
FreshNodes ==
  {decl(Str_c, Str_r, <<>>)} \cup {rule(sel, <<>>, <<>>) : sel \in {S_atRoot, Sel_x}}

\* the producer appends a new node on the right edge of the forest
AddFreshNode(obj, owner) ==
  /\ pc = "css"
  /\ outs = <<>>
  /\ Len(heap) < MaxFreshNodes
  /\ owner \in RightEdge(Mem, ROOT)
  /\ LET m == SetArr(New(Mem, obj), owner, Append(Arr(Mem, owner), Len(heap) + 1))
     IN /\ heap' = m.heap
        /\ ast' = m.ast
  /\ UNCHANGED <<stack, pc, visits, visitor, outs, locals>>

NextFresh ==
  \/ \E obj \in FreshNodes : \E owner \in 0..MaxFreshNodes : AddFreshNode(obj, owner)
  \/ ToCssAgain(FALSE)

SpecFresh == InitCss /\ [][NextFresh]_vars

\* Calls of toCss with tracking, one after the other, on a forest of
\* Declarations that are printed and that are not, Comments, and @at-root,
\* `@tailwind utilities` and `@property` Rules
MappedNodes ==
  {decl(Str_c, Str_r, <<>>), decl(S_twSort, Str_r, <<>>), comment(Str_c, <<>>)}
    \cup {rule(sel, <<>>, <<>>) : sel \in {S_atRoot, S_utilities, Sel_x}}

NextMapped ==
  \/ \E obj \in MappedNodes : \E owner \in 0..MaxCssNodes : AddNode(obj, owner)
  \/ ToCssAgain(TRUE)

SpecMapped == InitCss /\ [][NextMapped]_vars

----------------------------------------------------------------------------
(* walk, from the building of the forest to its return *)

\* the nodes the producer of a forest for walk makes
WalkNodes == {decl(Str_c, Str_r, <<>>), rule(Str_a, <<>>, <<>>)}

\* the producer appends a new node on the right edge of the forest
AddWalkNode(obj, owner) ==
  /\ pc = "build"
  /\ Len(heap) < MaxTermNodes
  /\ owner \in RightEdge(Mem, ROOT)
  /\ LET m == SetArr(New(Mem, obj), owner, Append(Arr(Mem, owner), Len(heap) + 1))
     IN /\ heap' = m.heap
        /\ ast' = m.ast
  /\ UNCHANGED <<stack, pc, visits, visitor, outs, locals>>

\* walk(ast, visit) is called on the forest as it is
CallWalk ==
  /\ pc = "build"
  /\ stack' = IF ast = <<>> THEN <<>> ELSE <<[ast |-> ROOT, i |-> 0]>>
  /\ pc' = IF ast = <<>> THEN "done" ELSE "walking"
  /\ UNCHANGED <<heap, ast, visits, visitor, outs, locals>>

\* an empty forest and a visitor that calls replaceWith at most once in a
\* visit and MaxOnce times in all: it deletes the node, puts new nodes in
\* its place or puts the node back
InitTerm ==
  /\ heap = <<>>
  /\ ast = <<>>
  /\ stack = <<>>
  /\ pc = "build"
  /\ visits = <<>>
  /\ visitor = [maxReplace |-> MaxOnce, maxCalls |-> 1,
                kinds |-> {"delete", "decl2", "self", "rule"}]
  /\ outs = <<>>
  /\ locals = NoLocals

NextTerm ==
  \/ \E obj \in WalkNodes : \E owner \in 0..MaxTermNodes : AddWalkNode(obj, owner)
  \/ CallWalk
  \/ Next

\* walk runs on one thread and the visitor returns: a step that can be
\* taken is taken
SpecTerm == InitTerm /\ [][NextTerm]_vars /\ WF_vars(NextTerm)

----------------------------------------------------------------------------
(* Reading the record of visits *)

Range(s) == {s[k] : k \in DOMAIN s}

IsPrefix(s, t) == Len(s) <= Len(t) /\ s = SubSeq(t, 1, Len(s))

\* s can be had from t by dropping elements
RECURSIVE IsSubseq(_, _)
IsSubseq(s, t) ==
  IF s = <<>> THEN TRUE
  ELSE IF t = <<>> THEN FALSE
  ELSE IF Head(s) = Head(t) THEN IsSubseq(Tail(s), Tail(t))
  ELSE IsSubseq(s, Tail(t))

\* the nodes of the visits p+1 .. q-1 made in the array of visit p
NodesBetween(p, q) ==
  LET idx == SelectSeq([k \in 1..Len(visits) |-> k],
                       LAMBDA k : k > p /\ k < q /\ visits[k].ast = visits[p].ast)
  IN [k \in 1..Len(idx) |-> visits[idx[k]].node]

\* the nodes of all visits after p made in the array of visit p
NodesAfter(p) == NodesBetween(p, Len(visits) + 1)

VisitedNodes == [k \in 1..Len(visits) |-> visits[k].node]

\* the siblings that follow the visited node when visit p starts
Followers(p) == SubSeq(visits[p].before, visits[p].i + 2, Len(visits[p].before))

\* the siblings that precede the visited node when visit p starts
Preceders(p) == SubSeq(visits[p].before, 1, visits[p].i)

\* visit p called replaceWith exactly once, on a node of the array
ReplacedOnce(p) == Len(visits[p].calls) = 1 /\ visits[p].i >= 0

\* the forest in depth-first pre-order: a Rule, then its children in
\* sequence order, then the next sibling
RECURSIVE PreOrder(_, _)
PreOrder(m, arr) ==
  IF arr = <<>> THEN <<>>
  ELSE LET n == Head(arr)
       IN <<n>> \o (IF m.heap[n].kind = "rule" THEN PreOrder(m, m.heap[n].nodes) ELSE <<>>)
               \o PreOrder(m, Tail(arr))

\* the visitor never called replaceWith and always returned Continue
PlainVisitor ==
  \A p \in 1..Len(visits) : visits[p].calls = <<>> /\ visits[p].status = Continue

----------------------------------------------------------------------------
(* Claims *)

\* C1: once the visitor returns Stop, at any nesting depth, it is never
\* called again during the walk: a Stop is the last visit.
C1_StopEndsWalk ==
  \A p \in 1..Len(visits) : visits[p].status = Stop => p = Len(visits)

\* C2: with a visitor that never calls replaceWith and always returns
\* Continue, the visits made so far are the start of the forest's depth-first
\* pre-order, and when walk has returned every one of the N nodes was visited
\* exactly once.
C2_PreOrderOnce ==
  PlainVisitor =>
    /\ pc # "threw"
    /\ IsPrefix(VisitedNodes, PreOrder(Mem, ast))
    /\ pc = "done" =>
         /\ VisitedNodes = PreOrder(Mem, ast)
         /\ Len(visits) = Len(heap)
         /\ \A n \in 1..Len(heap) : Cardinality({p \in 1..Len(visits) : visits[p].node = n}) = 1

C2_Witness ==
  /\ pc = "done"
  /\ PlainVisitor
  /\ Len(visits) = 3
  /\ \E p \in 1..Len(visits) : visits[p].ast # ROOT
  /\ \E p \in 1..Len(visits) : visits[p].ast = ROOT /\ visits[p].i = 1

\* C3: a visit at index i that calls replaceWith once with n1..nk leaves the
\* sequence with n1..nk at i..i+k-1 between the untouched siblings; each of
\* n1..nk is visited, in order, before any sibling that followed the replaced
\* node; and when the only replacement of a walk that otherwise continues
\* puts two Declarations in place of a Declaration, the two are in the tree
\* and were visited exactly once each when walk returns.  The log of visits
\* only grows, so the order is stated of the latest visit in every state.
C3_ReplaceRevisits ==
  \A p \in 1..Len(visits) :
    ReplacedOnce(p) =>
      LET items == visits[p].calls[1]
      IN /\ visits[p].after = Preceders(p) \o items \o Followers(p)
         /\ LET q == Len(visits)
            IN (q > p /\ visits[q].ast = visits[p].ast
                      /\ visits[q].node \in Range(Followers(p)))
                 => IsSubseq(items, NodesBetween(p, q))
         /\ ( /\ pc = "done"
              /\ SumCalls(visits) = 1
              /\ Len(items) = 2
              /\ heap[visits[p].node].kind = "declaration"
              /\ \A q \in 1..Len(visits) : visits[q].status = Continue )
            => /\ Arr(Mem, visits[p].ast) = Preceders(p) \o items \o Followers(p)
               /\ \A k \in 1..2 :
                    Cardinality({q \in 1..Len(visits) : visits[q].node = items[k]}) = 1

C3_Witness ==
  /\ pc = "done"
  /\ \E p \in 1..Len(visits) :
       /\ ReplacedOnce(p)
       /\ Len(visits[p].calls[1]) = 2
       /\ heap[visits[p].node].kind = "declaration"
       /\ \A q \in 1..Len(visits) : visits[q].status = Continue
       /\ Followers(p) # <<>>
       /\ visits[Len(visits)].node = Followers(p)[1]

\* C4: no node is visited twice at the same position of the same child
\* sequence unless replaceWith was called at that position in between.
C4_NoRevisit ==
  \A p \in 1..Len(visits) : \A q \in (p + 1)..Len(visits) :
    ( /\ visits[p].node # NoNode
      /\ visits[q].node = visits[p].node
      /\ visits[q].ast = visits[p].ast
      /\ visits[q].i = visits[p].i )
    => \E r \in p..(q - 1) :
         /\ visits[r].ast = visits[p].ast
         /\ visits[r].i = visits[p].i
         /\ visits[r].calls # <<>>

\* C5: after a visit that returns Continue and replaced a Rule with other
\* nodes, the children of the replaced Rule are not visited.
C5_NoDetachedDescent ==
  \A p \in 1..Len(visits) :
    ( /\ ReplacedOnce(p)
      /\ visits[p].status = Continue
      /\ heap[visits[p].node].kind = "rule"
      /\ visits[p].node \notin Range(visits[p].after) )
    => \A q \in (p + 1)..Len(visits) : visits[q].ast # visits[p].node

\* C6: when replaceWith is called more than once in a visit at index i, the
\* siblings before and after index i stay as they were and the next visit of
\* that sequence is at index i.
C6_SameSplicePoint ==
  \A p \in 1..Len(visits) :
    (Len(visits[p].calls) >= 2 /\ visits[p].i >= 0) =>
      /\ IsPrefix(Preceders(p), visits[p].after)
      /\ Len(visits[p].after) >= Len(Followers(p)) + Len(Preceders(p))
      /\ SubSeq(visits[p].after, Len(visits[p].after) - Len(Followers(p)) + 1,
                Len(visits[p].after)) = Followers(p)
      /\ \A q \in (p + 1)..Len(visits) :
           (visits[q].ast = visits[p].ast /\ NodesBetween(p, q) = <<>>)
             => visits[q].i = visits[p].i

\* C7: a visit that calls replaceWith([]) once removes the visited node and
\* nothing else, and the visits that follow in that sequence are its
\* followers, each once and in order: none is skipped, and all were visited
\* when walk has returned without a Stop in that sequence.
C7_DeleteSkipsNothing ==
  \A p \in 1..Len(visits) :
    (ReplacedOnce(p) /\ visits[p].calls[1] = <<>> /\ visits[p].status # Stop) =>
      /\ visits[p].after = Preceders(p) \o Followers(p)
      /\ IsPrefix(NodesAfter(p), Followers(p))
      /\ ( /\ pc = "done"
           /\ \A q \in (p + 1)..Len(visits) :
                visits[q].ast = visits[p].ast => visits[q].status # Stop )
         => NodesAfter(p) = Followers(p)

C7_Witness ==
  /\ pc = "done"
  /\ Len(visits) = 3
  /\ \A p \in 1..2 :
       /\ ReplacedOnce(p)
       /\ visits[p].calls[1] = <<>>
       /\ visits[p].ast = ROOT
       /\ visits[p].i = 0
  /\ visits[3].ast = ROOT
  /\ visits[3].i = 0
  /\ visits[3].calls = <<>>
  /\ VisitedNodes = <<1, 2, 3>>

----------------------------------------------------------------------------
(* Reading the record of a call of toCss *)

\* the lines of a text
Lines(css) == Split(css, "\n")

\* a line without its indentation
RECURSIVE StripIndent(_)
StripIndent(line) ==
  IF line # <<>> /\ Head(line) = " " THEN StripIndent(Tail(line)) ELSE line

\* how many lines of css are `line`
CountLines(css, line) ==
  LET lines == Lines(css)
  IN Cardinality({k \in 1..Len(lines) : lines[k] = line})

\* the call of stringify noted at e produced text of its own
Emitted(e) == e.form \in {"statement", "block", "comment", "declaration"}

IsAtRoot(n) == heap[n].kind = "rule" /\ heap[n].selector = S_atRoot

IsAtProperty(n) == heap[n].kind = "rule" /\ StartsWith(heap[n].selector, S_property)

\* the children of the @at-root Rules among the first k calls noted in log,
\* in the order of the calls and, within a Rule, in child order
RECURSIVE HoistedIn(_, _)
HoistedIn(log, k) ==
  IF k = 0 THEN <<>>
  ELSE HoistedIn(log, k - 1)
         \o (IF IsAtRoot(log[k].node) THEN heap[log[k].node].nodes ELSE <<>>)

\* the nodes stringify was called on at depth 0 after the first k calls
Depth0After(log, k) ==
  LET idx == SelectSeq([j \in 1..Len(log) |-> j],
                       LAMBDA j : j > k /\ log[j].depth = 0)
  IN [j \in 1..Len(idx) |-> log[idx[j]].node]

\* the call noted at log[j] was made at depth 0 on a Rule with the selector
\* of node n
SameAtDepth0(log, j, n) ==
  /\ log[j].depth = 0
  /\ heap[log[j].node].kind = "rule"
  /\ heap[log[j].node].selector = heap[n].selector

\* C8: every child of an @at-root Rule met while the hoisted content is
\* rendered is itself rendered, at depth 0, later in the same call.
C8_NestedAtRootRendered ==
  \A c \in 1..Len(outs) :
    LET o == outs[c]
    IN \A k \in (o.mainCalls + 1)..Len(o.log) :
         IsAtRoot(o.log[k].node) =>
           \A child \in Range(heap[o.log[k].node].nodes) :
             \E j \in (k + 1)..Len(o.log) :
               o.log[j].node = child /\ o.log[j].depth = 0

\* C9: an @at-root Rule puts no line of its own in the text; the children
\* of the @at-root Rules met in the main forest, in the order the Rules were
\* met and in child order within each, are what is rendered at depth 0 after
\* the whole text of the main forest.
C9_HoistedAfterMain ==
  \A c \in 1..Len(outs) :
    LET o == outs[c]
        lines == Lines(o.css)
    IN /\ \A k \in 1..Len(o.log) : IsAtRoot(o.log[k].node) => ~Emitted(o.log[k])
       /\ \A k \in 1..Len(lines) : ~StartsWith(StripIndent(lines[k]), S_atRoot)
       /\ o.hoisted = HoistedIn(o.log, o.mainCalls)
       /\ IsPrefix(o.main, o.css)
       /\ IsSubseq(o.hoisted, Depth0After(o.log, o.mainCalls))
       /\ (o.hoisted = <<>>) => o.css = o.main

C9_Witness ==
  \E c \in 1..Len(outs) :
    LET o == outs[c]
    IN /\ o.css # <<>>
       /\ \E j \in 1..o.mainCalls : \E k \in (j + 1)..o.mainCalls :
            /\ IsAtRoot(o.log[j].node) /\ heap[o.log[j].node].nodes # <<>>
            /\ IsAtRoot(o.log[k].node) /\ heap[o.log[k].node].nodes # <<>>

\* C10 as claimed: at depth 0 a Rule whose selector starts with '@property '
\* produces output exactly when no Rule with the same selector was rendered
\* at depth 0 before it, whatever the child lists; at depth > 0 it always
\* produces output.
C10_FirstOnlyWhateverChildren ==
  \A c \in 1..Len(outs) :
    LET o == outs[c]
    IN \A k \in 1..Len(o.log) :
         IsAtProperty(o.log[k].node) =>
           IF o.log[k].depth = 0
             THEN Emitted(o.log[k])
                    <=> ~\E j \in 1..(k - 1) : SameAtDepth0(o.log, j, o.log[k].node)
             ELSE Emitted(o.log[k])

\* C10 as amended: among the Rules with at least one child rendered at
\* depth 0 whose selector starts with '@property ', only the first with a
\* given selector produces output (one block in the text); such a Rule
\* without children is printed as a statement every time, and one rendered
\* at depth > 0 is always printed; neither of the two marks the selector as
\* seen.
C10_FirstWithChildrenOnly ==
  \A c \in 1..Len(outs) :
    LET o == outs[c]
        Marks(j) == /\ o.log[j].depth = 0
                    /\ IsAtProperty(o.log[j].node)
                    /\ heap[o.log[j].node].nodes # <<>>
    IN /\ \A k \in 1..Len(o.log) :
            IsAtProperty(o.log[k].node) =>
              IF heap[o.log[k].node].nodes = <<>> THEN o.log[k].form = "statement"
              ELSE IF o.log[k].depth > 0 THEN o.log[k].form = "block"
              ELSE /\ o.log[k].form \in {"block", "suppressed"}
                   /\ o.log[k].form = "block"
                        <=> ~\E j \in 1..(k - 1) :
                               Marks(j) /\ SameAtDepth0(o.log, j, o.log[k].node)
       /\ o.seen = {heap[o.log[j].node].selector : j \in {i \in 1..Len(o.log) : Marks(i)}}
       /\ \A sel \in {Sel_x, Sel_y} :
            CountLines(o.css, sel \o <<" ", "{">>)
              = IF \E j \in 1..Len(o.log) : Marks(j) /\ heap[o.log[j].node].selector = sel
                  THEN 1 ELSE 0

C10_Witness ==
  \E c \in 1..Len(outs) :
    LET o == outs[c]
    IN \E j \in 1..Len(o.log) : \E k \in (j + 1)..Len(o.log) :
         /\ o.log[j].form = "block" /\ o.log[j].depth = 0
         /\ IsAtProperty(o.log[j].node)
         /\ o.log[k].form = "suppressed"
         /\ heap[o.log[k].node].selector = heap[o.log[j].node].selector

\* how many newline characters text holds
CountNewlines(text) == Cardinality({k \in 1..Len(text) : text[k] = "\n"})

\* the mappings the call of toCss kept in o pushed on node n
Appended(o, n) ==
  SubSeq(o.after[n].mappings, Len(o.before[n].mappings) + 1, Len(o.after[n].mappings))

\* the node of the call noted at e is a Declaration that is not to be printed
IsMarker(e) ==
  /\ heap[e.node].kind = "declaration"
  /\ \/ heap[e.node].property = S_twSort
     \/ heap[e.node].value \in {Undefined, Null}

\* C11: with tracking, the Mapping pushed on a node that toCss emits points
\* at the text line the node's first line is on: its line is 1 plus the
\* number of newline characters in the text before the node, whatever
\* newlines selectors and values hold, in the main forest and in the hoisted
\* content.
C11_LineIsTextLine ==
  \A c \in 1..Len(outs) :
    LET o == outs[c]
    IN o.trackDestination =>
         \A k \in 1..Len(o.log) :
           Emitted(o.log[k]) =>
             LET added == Appended(o, o.log[k].node)
             IN /\ added # <<>>
                /\ added[1].destination.start.line
                     = 1 + CountNewlines(SubSeq(o.css, 1, o.log[k].at))

C16_TreeUnchanged ==
  \A c \in 1..Len(outs) :
    LET o == outs[c]
    IN ~o.trackDestination =>
         /\ o.after = o.before
         /\ \A k \in 1..Len(o.log) :
              IsAtRoot(o.log[k].node) =>
                /\ o.after[o.log[k].node].nodes = o.before[o.log[k].node].nodes
                /\ o.log[k].depth = 0 =>
                     IsSubseq(o.after[o.log[k].node].nodes, o.atRoots)

C16_Witness ==
  \E c \in 1..Len(outs) :
    LET o == outs[c]
    IN /\ ~o.trackDestination
       /\ o.css # <<>>
       /\ \E n \in 1..Len(heap) : o.before[n].mappings # <<>>
       /\ \E k \in 1..Len(o.log) :
            IsAtRoot(o.log[k].node) /\ o.after[o.log[k].node].nodes # <<>>

\* the calls noted in the log of o that printed node n
EmittedAt(o, n) == {k \in 1..Len(o.log) : o.log[k].node = n /\ Emitted(o.log[k])}

\* C13: a call of toCss with tracking pushes exactly one Mapping, with no
\* source and a zero-width destination at column 2 x depth, on each node that
\* prints a line, and none on a node that prints nothing of its own; the
\* mappings a node had stay as they were, so a node printed by each of k
\* tracked calls has k mappings more.
C13_OneMappingPerEmittedNode ==
  /\ \A c \in 1..Len(outs) :
       LET o == outs[c]
       IN o.trackDestination =>
            \A n \in 1..Len(heap) :
              LET added == Appended(o, n)
              IN /\ IsPrefix(o.before[n].mappings, o.after[n].mappings)
                 /\ Cardinality(EmittedAt(o, n)) <= 1
                 /\ IF EmittedAt(o, n) = {} THEN added = <<>>
                    ELSE LET e == o.log[CHOOSE k \in EmittedAt(o, n) : TRUE]
                         IN /\ Len(added) = 1
                            /\ added[1].source = Null
                            /\ added[1].destination.start = added[1].destination.end
                            /\ added[1].destination.start.column = 2 * e.depth
  /\ \A n \in 1..Len(heap) :
       Len(heap[n].mappings)
         = Cardinality({c \in 1..Len(outs) :
                          outs[c].trackDestination /\ EmittedAt(outs[c], n) # {}})
  /\ \A n \in 1..Len(heap) : \A c \in 1..Len(outs) : \A d \in 1..Len(outs) :
       (EmittedAt(outs[c], n) = {}) <=> (EmittedAt(outs[d], n) = {})

C13_Witness ==
  /\ Len(outs) = 2
  /\ outs[1].trackDestination /\ outs[2].trackDestination
  /\ \E n \in 1..Len(heap) :
       /\ Len(heap[n].mappings) = 2
       /\ heap[n].mappings[2].destination.start.column = 2
  /\ \E k \in 1..Len(outs[2].log) :
       /\ outs[2].log[k].form = "suppressed"
       /\ heap[outs[2].log[k].node].mappings = <<>>
       /\ \E j \in 1..(k - 1) :
            /\ outs[2].log[j].form = "block"
            /\ heap[outs[2].log[j].node].selector = heap[outs[2].log[k].node].selector
            /\ Len(heap[outs[2].log[j].node].mappings) = 2

\* C15: a Declaration whose property is `--tw-sort` or whose value is absent
\* puts no text in the output at any depth, gets no Mapping and leaves the
\* cursor where it was: the call that follows it starts at the same text
\* position and on the same line.
C15_MarkerLeavesNothing ==
  \A c \in 1..Len(outs) :
    LET o == outs[c]
        lines == Lines(o.css)
    IN /\ \A k \in 1..Len(o.log) :
            IsMarker(o.log[k]) =>
              /\ o.log[k].form = "nothing"
              /\ Appended(o, o.log[k].node) = <<>>
              /\ (k < Len(o.log) /\ o.log[k + 1].depth = o.log[k].depth) =>
                   /\ o.log[k + 1].at = o.log[k].at
                   /\ o.log[k + 1].line = o.log[k].line
              /\ (k = Len(o.log) /\ o.log[k].depth = 0) =>
                   /\ o.log[k].at = Len(o.css)
                   /\ o.trackDestination => o.log[k].line = o.location.line
       /\ \A k \in 1..Len(lines) : ~StartsWith(StripIndent(lines[k]), S_twSort)
       /\ \A k \in 1..Len(o.css) : o.css[k] \notin {"undefined", "null"}

C15_Witness ==
  \E c \in 1..Len(outs) :
    LET o == outs[c]
    IN /\ o.trackDestination
       /\ \E k \in 1..(Len(o.log) - 1) :
            /\ IsMarker(o.log[k])
            /\ o.log[k].depth = 1
            /\ o.log[k + 1].form = "declaration"
            /\ o.log[k + 1].depth = 1

\* the nodes below node n: its children, their children, ...
RECURSIVE Descendants(_, _)
Descendants(m, n) ==
  IF m.heap[n].kind # "rule" THEN {}
  ELSE Range(m.heap[n].nodes)
         \cup UNION {Descendants(m, m.heap[n].nodes[k]) : k \in DOMAIN m.heap[n].nodes}

\* visit p returned Skip on a Rule and called replaceWith at most once
SkippedRule(p) ==
  /\ visits[p].status = Skip
  /\ visits[p].node # NoNode
  /\ heap[visits[p].node].kind = "rule"
  /\ Len(visits[p].calls) <= 1

\* the index walk goes on with after visit p returned Skip
IndexAfterSkip(p) == visits[p].i - Len(visits[p].calls) + 1

\* C14: after the visitor returned Skip on a Rule, no descendant of the Rule
\* is visited and no child sequence below it is walked, as long as the Rule
\* itself is not visited again; the visit that follows is of the next
\* sibling or, when the visit called replaceWith, of the first node put at
\* that position.  The log of visits only grows, so this is stated of the
\* latest visit in every state.
C14_SkipDoesNotDescend ==
  LET q == Len(visits)
  IN \A p \in 1..(q - 1) :
       SkippedRule(p) =>
         LET R == visits[p].node
             j == IndexAfterSkip(p)
         IN /\ (\A k \in (p + 1)..q : visits[k].node # R) =>
                 /\ visits[q].node \notin Descendants(Mem, R)
                 /\ visits[q].ast \notin {R} \cup Descendants(Mem, R)
            /\ (q = p + 1 /\ j < Len(visits[p].after)) =>
                 /\ visits[q].ast = visits[p].ast
                 /\ visits[q].i = j
                 /\ visits[q].node = visits[p].after[j + 1]
                 /\ visits[q].node
                      = IF visits[p].calls = <<>> \/ visits[p].calls[1] = <<>>
                          THEN Followers(p)[1]
                          ELSE visits[p].calls[1][1]

C14_Witness ==
  /\ pc = "done"
  /\ \E p \in 1..(Len(visits) - 2) :
       /\ SkippedRule(p)
       /\ heap[visits[p].node].nodes # <<>>
       /\ Len(visits[p].calls) = 1
       /\ Len(visits[p].calls[1]) = 2
       /\ Followers(p) # <<>>
       /\ visits[p + 1].node = visits[p].calls[1][1]
       /\ visits[Len(visits)].node = Followers(p)[1]

\* C17: with a visitor that calls replaceWith at most once in a visit and a
\* bounded number of times in all, each time with a finite acyclic set of
\* nodes, a call of walk on a finite forest returns.
C17_Terminates == (pc = "walking") ~> (pc = "done")

C17_Witness ==
  /\ pc = "done"
  /\ Len(visits) > Len(heap)
  /\ \E p \in 1..Len(visits) :
       /\ ReplacedOnce(p)
       /\ visits[p].calls[1] = <<visits[p].node>>
       /\ heap[visits[p].node].kind = "rule"
       /\ heap[visits[p].node].nodes # <<>>

====
